---- MODULE Spec2Model ----
(***************************************************************************)
(* InnoLiber backend: the access-control gate (core/dependencies.py), the  *)
(* token engine (core/security.py) and the proposal operations             *)
(* (api/v1/proposals.py over crud/proposal.py), as a state machine over    *)
(* the relational store.  Every request is a short-lived unit of work; a   *)
(* step of a request is the local computation up to and including one      *)
(* awaited database statement, so requests interleave between statements.  *)
(*                                                                         *)
(* Spec is the service on the Proposal class as models/proposal.py maps    *)
(* it.  The class maps none of the attributes version, word_count,         *)
(* structured_content and last_auto_save_at that crud/proposal.py works    *)
(* on, so SpecVersioning runs the update and delete operations on a store  *)
(* that has them: there the versioning rule has a stored version to act    *)
(* on, and SpecCopies runs create and duplicate on such a store.           *)
(* SpecSecurity applies the password and token functions of                *)
(* core/security.py to bounded inputs, and SpecAuth is the authentication  *)
(* router (api/v1/auth.py): register, login and GET /auth/me.              *)
(***************************************************************************)
EXTENDS Integers, Sequences, FiniteSets, TLC

VARIABLES attrs, users, proposals, next_id, now, req, calc

vars == <<attrs, users, proposals, next_id, now, req, calc>>

(***************************************************************************)
(* Bounds of the model.                                                    *)
(***************************************************************************)
\* the clock runs over 0..MaxTime
MaxTime == 1

\* updates are followed while the version they write stays within MaxVersion
MaxVersion == 2

\* inserts are followed while the id they take stays within MaxId
MaxId == 3

\* request slots: two requests can be in flight at once
Reqs == {1, 2}

(***************************************************************************)
(* The ORM classes.                                                        *)
(***************************************************************************)
\* Column attributes the Proposal class maps.
ProposalAttrs ==
    {"id", "title", "description", "content", "status", "owner_id",
     "funding_agency", "funding_amount", "project_duration", "research_field",
     "keywords", "quality_score", "content_score", "format_score",
     "innovation_score", "ai_suggestions", "ai_analysis", "files",
     "created_at", "updated_at", "submitted_at"}

\* Attributes of a Proposal that the repository functions read, write or
\* pass to its constructor and that are no column of the class.
CrudAttrs == {"version", "word_count", "structured_content",
              "last_auto_save_at"}

\* attrs is the set of attributes the Proposal class has in the running
\* service.  hasattr(proposal, f), the keyword check of the declarative
\* constructor and every attribute read go through it: reading an attribute
\* outside it raises AttributeError, passing one to Proposal(...) TypeError.
HasAttr(f) == f \in attrs

\* The four values of the status enumeration.
ProposalStatus == {"draft", "reviewing", "completed", "submitted"}

(***************************************************************************)
(* The store when the service starts.  Users are rows of the users table   *)
(* (id, email, is_active); carol's account is disabled.  Proposals are     *)
(* rows of the proposals table, restricted to the columns the operations   *)
(* read or write here.                                                     *)
(***************************************************************************)
StoredUsers ==
    { [id |-> 1, email |-> "alice", is_active |-> TRUE],
      [id |-> 2, email |-> "bob",   is_active |-> TRUE],
      [id |-> 3, email |-> "carol", is_active |-> FALSE] }

StoredProposals ==
    { [id |-> 1, owner_id |-> 1, title |-> <<"t1">>, status |-> "draft",
       description |-> <<"d1">>, quality_score |-> 0, updated_at |-> -3],
      [id |-> 2, owner_id |-> 1, title |-> <<"t2">>, status |-> "submitted",
       description |-> <<"d2">>, quality_score |-> 0, updated_at |-> -2],
      [id |-> 3, owner_id |-> 3, title |-> <<"t3">>, status |-> "reviewing",
       description |-> <<"d3">>, quality_score |-> 0, updated_at |-> -1] }

\* A row in a store whose table also has the columns of CrudAttrs (an
\* absent structured content or save time is the empty tuple).
MigratedRow(p, version) ==
    p @@ [version |-> version, word_count |-> 0, structured_content |-> <<>>,
          last_auto_save_at |-> <<>>]

\* alice's draft at version 1
MigratedProposals ==
    { MigratedRow(p, 1) : p \in { q \in StoredProposals : q.id = 1 } }

\* ids a request can name: the stored ones and 0, which no row ever has
PidInputs == {0, 1, 2, 3}

(***************************************************************************)
(* Token engine.  A token is what jwt.decode can tell apart: whether it    *)
(* parses, whether its signature was made with the server key, its exp     *)
(* claim and its sub claim ("" when the payload carries none).             *)
(***************************************************************************)
Token(sub, exp) == [kind |-> "jwt", signed |-> TRUE, sub |-> sub, exp |-> exp]

Forged(sub, exp) == [kind |-> "jwt", signed |-> FALSE, sub |-> sub, exp |-> exp]

Malformed == [kind |-> "garbage", signed |-> FALSE, sub |-> "", exp |-> 0]

NoToken == [kind |-> "none", signed |-> FALSE, sub |-> "", exp |-> 0]

TokenInputs ==
    { Token(e, MaxTime) : e \in {"alice", "bob", "carol", "ghost"} }
      \cup { Token("alice", 0), Token("", MaxTime), Forged("alice", MaxTime),
             Malformed }

\* jwt.decode that does not look at exp
JwtDecodeIgnoresExp(t, clock) == t.kind # "jwt" \/ ~t.signed

\* jwt.decode raises JWTError for a token that does not parse, whose
\* signature does not verify or whose exp lies before the current time.
JwtDecodeRaises(t, clock) ==
    \/ t.kind # "jwt"
    \/ ~t.signed
    \/ t.exp < clock

\* verify_token that reads the subject without verifying the token
verify_token_unverified(t, clock) == t.sub

\* verify_token without its except clause: the JWTError of jwt.decode
\* reaches the caller
verify_token_uncaught(t, clock) ==
    IF JwtDecodeRaises(t, clock) THEN "JWTError"
    ELSE t.sub

\* verify_token: the subject, or "" for None
verify_token(t, clock) ==
    IF JwtDecodeRaises(t, clock) THEN ""
    ELSE t.sub

\* settings.JWT_ACCESS_TOKEN_EXPIRE, in seconds
JWT_ACCESS_TOKEN_EXPIRE == 86400

\* an expires_delta argument: <<>> for None, else <<seconds>>
ExpiresDeltaInputs == {<<>>, <<0>>, <<2>>}

\* create_access_token: "if expires_delta:" is false for None and for a
\* timedelta of zero; exp and iat are added to the payload and the payload
\* is signed with the server key.  spare stands for the part of the token
\* text that base64url decoding of the signature segment discards (the
\* unused low bits of its last character); jwt.encode leaves it 0.
create_access_token(sub, expires_delta, clock) ==
    LET expire == IF expires_delta # <<>> /\ expires_delta[1] # 0
                  THEN clock + expires_delta[1]
                  ELSE clock + JWT_ACCESS_TOKEN_EXPIRE
    IN  [kind |-> "jwt", signed |-> TRUE, sub |-> sub, exp |-> expire,
         iat |-> clock, spare |-> 0]

\* ways of altering the text of an issued token
AlterInputs == {"sub", "exp", "signature", "spare", "truncate"}

\* the token text after an alteration, as jwt.decode will see it: a changed
\* payload or changed signature bytes no longer match each other, a cut
\* token does not parse, and a change confined to the discarded bits of
\* the signature segment decodes to the same signature bytes
AlterToken(t, how) ==
    CASE how = "sub" -> [t EXCEPT !.sub = IF @ = "alice" THEN "bob" ELSE "alice",
                                  !.signed = FALSE]
      [] how = "exp" -> [t EXCEPT !.exp = @ + JWT_ACCESS_TOKEN_EXPIRE,
                                  !.signed = FALSE]
      [] how = "signature" -> [t EXCEPT !.signed = FALSE]
      [] how = "spare" -> [t EXCEPT !.spare = 1 - @]
      [] OTHER -> [t EXCEPT !.kind = "garbage", !.signed = FALSE]

(***************************************************************************)
(* Password hashing.  A password is a text given by its runs of equal      *)
(* characters, <<character, count>>, so that its length in bytes is exact; *)
(* "U+00E9" is a character of two bytes in UTF-8.  The base64 text of a    *)
(* SHA-256 digest is a text of 44 ASCII characters, written by the bytes   *)
(* it is the digest of.                                                    *)
(***************************************************************************)
\* bcrypt reads no more than 72 bytes of a password
BcryptLimit == 72

\* length of base64.b64encode of a 32-byte digest
DigestTextLen == 44

Text(runs) == [kind |-> "text", runs |-> runs]

\* base64.b64encode(hashlib.sha256(b).digest())
Sha256Base64(b) == [kind |-> "sha256-base64", runs |-> b.runs]

Utf8Len(c) == IF c = "U+00E9" THEN 2 ELSE 1

RECURSIVE RunsLen(_)
RunsLen(runs) ==
    IF runs = <<>> THEN 0
    ELSE Head(runs)[2] * Utf8Len(Head(runs)[1]) + RunsLen(Tail(runs))

\* len(password.encode('utf-8'))
ByteLen(p) == IF p.kind = "text" THEN RunsLen(p.runs) ELSE DigestTextLen

\* the bytes handed to bcrypt, by get_password_hash and by verify_password
password_bytes(password) ==
    IF ByteLen(password) > BcryptLimit THEN Sha256Base64(password)
    ELSE password

\* bcrypt.gensalt(rounds=12) draws a salt
Salts == {"salt1", "salt2"}

\* bcrypt.hashpw on at most 72 bytes: the salt and the key derived from
\* exactly these bytes
bcrypt_hashpw(bytes, salt) == [salt |-> salt, key |-> bytes]

\* bcrypt.checkpw: hash the bytes with the salt of the stored hash, compare
bcrypt_checkpw(bytes, hashed) == bcrypt_hashpw(bytes, hashed.salt) = hashed

get_password_hash(password, salt) ==
    bcrypt_hashpw(password_bytes(password), salt)

\* verify_password that accepts every password
verify_password_accepts_any(plain_password, hashed_password) == TRUE

verify_password(plain_password, hashed_password) ==
    bcrypt_checkpw(password_bytes(plain_password), hashed_password)

Long1 == Text(<< <<"a", 72>>, <<"b", 1>> >>)

Long2 == Text(<< <<"a", 72>>, <<"c", 1>> >>)

\* passwords: short ones, one of exactly 72 bytes, two of 73 bytes that
\* differ in the last byte, 37 two-byte characters, and the 44 characters
\* that are the digest text of a long password
PasswordInputs ==
    { Text(<< <<"p", 1>>, <<"w", 1>> >>), Text(<< <<"p", 1>>, <<"W", 1>> >>),
      Text(<< <<"a", 72>> >>), Long1, Long2,
      Text(<< <<"U+00E9", 36>> >>), Text(<< <<"U+00E9", 37>> >>),
      Sha256Base64(Long1) }

(***************************************************************************)
(* The functions of core/security.py on their own: calc holds the last     *)
(* computation, its inputs and its result.                                 *)
(***************************************************************************)
NoCalc ==
    [op |-> "none", password |-> Text(<<>>), hashed |-> bcrypt_hashpw(Text(<<>>), ""),
     candidate |-> Text(<<>>), ok |-> FALSE, sub |-> "", delta |-> <<>>,
     token |-> NoToken, presented |-> NoToken, result |-> "", at |-> 0,
     content |-> <<>>, count |-> 0]

\* get_password_hash(password)
HashPassword ==
    /\ calc.op = "none"
    /\ \E p \in PasswordInputs, s \in Salts :
         calc' = [calc EXCEPT !.op = "hashed", !.password = p,
                              !.hashed = get_password_hash(p, s)]
    /\ UNCHANGED <<attrs, users, proposals, next_id, now, req>>

\* verify_password(candidate, hashed)
VerifyPassword ==
    /\ calc.op = "hashed"
    /\ \E p \in PasswordInputs :
         calc' = [calc EXCEPT !.op = "checked", !.candidate = p,
                              !.ok = verify_password(p, calc.hashed)]
    /\ UNCHANGED <<attrs, users, proposals, next_id, now, req>>

\* the sub claim of the data to sign; "" for data that carries none
SubjectInputs == {"alice", "bob", ""}

\* create_access_token(data={"sub": sub}, expires_delta)
IssueToken ==
    /\ calc.op = "none"
    /\ \E sub \in SubjectInputs, d \in ExpiresDeltaInputs :
         LET t == create_access_token(sub, d, now)
         IN  calc' = [calc EXCEPT !.op = "issued", !.sub = sub, !.delta = d,
                                  !.token = t, !.presented = t]
    /\ UNCHANGED <<attrs, users, proposals, next_id, now, req>>

\* the holder changes the text of the token
PresentAltered ==
    /\ calc.op = "issued"
    /\ calc.presented = calc.token
    /\ \E how \in AlterInputs :
         calc' = [calc EXCEPT !.presented = AlterToken(calc.token, how)]
    /\ UNCHANGED <<attrs, users, proposals, next_id, now, req>>

\* verify_token(presented)
VerifyToken ==
    /\ calc.op = "issued"
    /\ calc' = [calc EXCEPT !.op = "verified", !.at = now,
                            !.result = verify_token(calc.presented, now)]
    /\ UNCHANGED <<attrs, users, proposals, next_id, now, req>>

\* the computation is over
Forget ==
    /\ calc.op \in {"checked", "verified", "counted"}
    /\ calc' = NoCalc
    /\ UNCHANGED <<attrs, users, proposals, next_id, now, req>>

\* the instants the clock is read at: around the start and around one
\* token lifetime later
Instants ==
    (0 .. MaxTime + 2)
      \cup { JWT_ACCESS_TOKEN_EXPIRE + k : k \in (0 - 1) .. (MaxTime + 1) }

\* time passes to a later instant
Elapse ==
    /\ \E t \in Instants : t > now /\ now' = t
    /\ UNCHANGED <<calc, attrs, users, proposals, next_id, req>>




(***************************************************************************)
(* Word count utilities.  A text is a sequence of one-character strings.   *)
(***************************************************************************)
IsSpace(c) == c \in {" ", "\t", "\n"}

\* position of the first ">" of s at or after i, or 0
RECURSIVE FirstClose(_, _)
FirstClose(s, i) ==
    IF i > Len(s) THEN 0
    ELSE IF s[i] = ">" THEN i
    ELSE FirstClose(s, i + 1)

\* re.sub(r'<[^>]+>', '', s) from position i on: a "<" starts a tag when the
\* next ">" lies at least one character further
RECURSIVE StripTags(_, _)
StripTags(s, i) ==
    IF i > Len(s) THEN <<>>
    ELSE LET j == FirstClose(s, i + 1)
         IN  IF s[i] = "<" /\ j >= i + 2
             THEN StripTags(s, j + 1)
             ELSE <<s[i]>> \o StripTags(s, i + 1)

\* re.sub(r'\s+', ' ', s) from position i on
RECURSIVE CollapseSpace(_, _)
CollapseSpace(s, i) ==
    IF i > Len(s) THEN <<>>
    ELSE IF IsSpace(s[i])
         THEN IF i > 1 /\ IsSpace(s[i - 1])
              THEN CollapseSpace(s, i + 1)
              ELSE <<" ">> \o CollapseSpace(s, i + 1)
         ELSE <<s[i]>> \o CollapseSpace(s, i + 1)

\* str.strip() of a text whose whitespace runs are single spaces
Strip(s) ==
    LET a == IF Len(s) > 0 /\ s[1] = " " THEN Tail(s) ELSE s
    IN  IF Len(a) > 0 /\ a[Len(a)] = " " THEN SubSeq(a, 1, Len(a) - 1) ELSE a

\* calculate_word_count that leaves the tags in the text
calculate_word_count_keeps_tags(content) ==
    Len(Strip(CollapseSpace(content, 1)))

\* calculate_word_count: tags removed, whitespace collapsed, stripped; len
calculate_word_count(content) ==
    Len(Strip(CollapseSpace(StripTags(content, 1), 1)))

\* a section value that is no str (None, a number): written as a sequence
\* whose one element is no character
NotText == <<"None">>

\* isinstance(section_content, str)
IsStr(v) == v # NotText

\* the loop of calculate_structured_word_count over the values of the dict
RECURSIVE SumWordCount(_, _)
SumWordCount(sc, names) ==
    IF names = {} THEN 0
    ELSE LET n == CHOOSE x \in names : TRUE
         IN  (IF IsStr(sc[n]) THEN calculate_word_count(sc[n]) ELSE 0)
               + SumWordCount(sc, names \ {n})

calculate_structured_word_count(sc) == SumWordCount(sc, DOMAIN sc)

\* a structured content a patch can carry: "<p>a  b</p>" as abstract
SampleContent ==
    [abstract    |-> <<"<", "p", ">", "a", " ", " ", "b", "<", "/", "p", ">">>,
     background  |-> <<>>, objectives |-> <<>>, methodology |-> <<>>,
     timeline    |-> <<>>, budget     |-> <<>>, references  |-> <<>>]

\* texts a section can hold: "<p>Hello  world</p>", "", "  a ", "<>",
\* "<<a>b" and "<b>\n\t<i>x</i> y"
HelloWorld ==
    <<"<", "p", ">", "H", "e", "l", "l", "o", " ", " ", "w", "o", "r", "l",
      "d", "<", "/", "p", ">">>

Padded == <<" ", " ", "a", " ">>

EmptyTag == <<"<", ">">>

DoubleOpen == <<"<", "<", "a", ">", "b">>

Markup ==
    <<"<", "b", ">", "\n", "\t", "<", "i", ">", "x", "<", "/", "i", ">", " ",
      "y">>

SectionValues ==
    {HelloWorld, <<>>, Padded, EmptyTag, DoubleOpen, Markup, NotText}

SectionNames == {"abstract", "background", "budget"}

\* structured_content: Dict[str, Any], any of the sections present
ContentInputs == UNION { [names -> SectionValues] : names \in SUBSET SectionNames }

\* calculate_structured_word_count(structured_content)
CountWords ==
    /\ calc.op = "none"
    /\ \E sc \in ContentInputs :
         calc' = [calc EXCEPT !.op = "counted", !.content = sc,
                              !.count = calculate_structured_word_count(sc)]
    /\ UNCHANGED <<attrs, users, proposals, next_id, now, req>>

(***************************************************************************)
(* Update requests.  A ProposalUpdateRequest is the function from the      *)
(* fields it sets to a value (vals) and the set of fields it sets to null  *)
(* (nulls); every other field is unset.                                    *)
(***************************************************************************)
NoPatch == [vals |-> <<>>, nulls |-> {}]

PatchInputs ==
    { [vals |-> [version |-> 1, title |-> <<"renamed">>], nulls |-> {}],
      [vals |-> [version |-> 2, status |-> "completed"], nulls |-> {}],
      [vals |-> [title |-> <<"renamed">>], nulls |-> {}],
      [vals |-> [version |-> 1, structured_content |-> SampleContent],
       nulls |-> {}],
      [vals |-> [structured_content |-> SampleContent, word_count |-> 9],
       nulls |-> {}],
      [vals |-> [version |-> 1], nulls |-> {"title"}] }

\* lines 218-225 of the update route: a patch with structured content and no
\* word count gets the computed one
WithWordCount(data) ==
    IF /\ "structured_content" \in DOMAIN data.vals
       /\ "word_count" \notin DOMAIN data.vals
    THEN [vals  |-> data.vals @@
                    [word_count |-> calculate_structured_word_count(
                                        data.vals.structured_content)],
          nulls |-> data.nulls \ {"word_count"}]
    ELSE data


(***************************************************************************)
(* Requests.  req[r] is the unit of work in slot r: where it stands (pc),  *)
(* what it was asked (router, op, tok, pid, patch, query), what it has     *)
(* read (uid, row, total) and what it answered (resp).  tok is kept while  *)
(* the dependencies use it.  touched and owner are history: whether the    *)
(* request has issued a statement on the proposals table, and the owner    *)
(* of the row stored under the named id when it looked (0: no such row).   *)
(***************************************************************************)
Routers == {"auth", "proposals"}

NoRow == [id |-> 0, owner_id |-> 0, title |-> <<>>, status |-> "",
          quality_score |-> 0, updated_at |-> 0]

\* the query parameters of GET /proposals
NoQuery == [page |-> 0, page_size |-> 0, status |-> ""]

QueryInputs ==
    [page : {1, 2}, page_size : {1}, status : {"", "draft"}]

Resp(code, detail) ==
    [code |-> code, detail |-> detail, bearer |-> FALSE,
     current |-> 0, submitted |-> 0, body |-> <<>>]

NoResp == Resp(0, "")

\* the form of a register or login request
NoForm == [email |-> "", password |-> Text(<<>>)]

IdleReq ==
    [pc |-> "idle", router |-> "none", op |-> "none", tok |-> NoToken,
     uid |-> 0, pid |-> 0, patch |-> NoPatch, query |-> NoQuery,
     row |-> NoRow, total |-> 0,
     resp |-> NoResp, touched |-> FALSE, owner |-> 0, form |-> NoForm]

\* a request ends: its response goes out
Done(q, resp) == [q EXCEPT !.pc = "done", !.resp = resp]

\* what the framework answers for an exception no handler catches
InternalServerError == Resp(500, "Internal Server Error")

(***************************************************************************)
(* Access-control gate.                                                    *)
(***************************************************************************)
credentials_exception ==
    [Resp(401, "Could not validate credentials") EXCEPT !.bearer = TRUE]

\* get_current_user: the users the token resolves to (none: the 401 above)
get_current_user(t, clock, us) ==
    LET email == verify_token(t, clock)
    IN  IF email = "" THEN {}
        ELSE {u \in us : u.email = email}

\* get_current_active_user that lets every resolved user pass
get_current_active_user_unchecked(u) == TRUE

\* get_current_active_user: passes an active user, else 400
get_current_active_user(u) == u.is_active

\* The dependency through which the routes of a router get current_user:
\* GET /auth/me and the proposals router with all its routes.
RouteDependency(router) ==
    IF router = "auth" THEN "get_current_active_user" ELSE "get_current_user"

\* A request arrives and its dependencies are solved: the token is verified
\* and the user selected.  GET /auth/me has no further statement and answers
\* at once.
resolve_with(r, routers, tokens) ==
    /\ req[r].pc = "idle"
    /\ \E router \in routers, t \in tokens :
         LET found == get_current_user(t, now, users)
             q     == [IdleReq EXCEPT !.router = router, !.tok = t]
         IN  req' = [req EXCEPT ![r] =
               IF found = {} THEN Done(q, credentials_exception)
               ELSE LET u == CHOOSE x \in found : TRUE
                    IN  IF /\ RouteDependency(router) = "get_current_active_user"
                           /\ ~get_current_active_user(u)
                        THEN Done([q EXCEPT !.uid = u.id],
                                  Resp(400, "Inactive user"))
                        ELSE IF router = "auth"
                        THEN Done([q EXCEPT !.op = "me", !.uid = u.id],
                                  Resp(200, "user"))
                        ELSE [q EXCEPT !.pc = "route", !.uid = u.id]]
    /\ UNCHANGED <<calc, attrs, users, proposals, next_id, now>>

\* a request of either router arrives with one of the tokens of TokenInputs
resolve_dependencies(r) == resolve_with(r, Routers, TokenInputs)

\* a route of the proposals router starts to run for request r
AtRoute(r) == req[r].pc = "route" /\ req[r].router = "proposals"

\* request r stands before the second statement of route op
AtSecond(r, op) == req[r].pc = "second" /\ req[r].op = op

(***************************************************************************)
(* Proposal repository: reads.                                             *)
(***************************************************************************)
\* get_proposal_by_id without the owner filter
get_proposal_by_id_any_owner(props, pid, uid) ==
    {p \in props : p.id = pid}

\* get_proposal_by_id: rows with the id, filtered to the owner
get_proposal_by_id(props, pid, uid) ==
    {p \in props : p.id = pid /\ p.owner_id = uid}

\* Fields ProposalDetailResponse and ProposalListItem require of the object
\* they are built from (fields declared without a default).
DetailRequired ==
    {"id", "title", "description", "status", "research_field", "version",
     "word_count", "quality_score", "content_score", "format_score",
     "innovation_score", "created_at", "updated_at", "submitted_at",
     "last_auto_save_at", "funding_agency", "funding_amount",
     "project_duration", "keywords"}

ListItemRequired ==
    {"id", "title", "status", "research_field", "version", "word_count",
     "quality_score", "content_score", "format_score", "innovation_score",
     "created_at", "updated_at", "funding_amount", "project_duration"}

\* from_orm succeeds when the object has every required field
from_orm(required) == \A f \in required : HasAttr(f)

\* request q issues a statement on the proposals table that names id pid
Looked(q, op, pid) ==
    [q EXCEPT !.op = op, !.pid = pid, !.tok = NoToken, !.touched = TRUE,
              !.owner = IF \E p \in proposals : p.id = pid
                        THEN (CHOOSE p \in proposals : p.id = pid).owner_id
                        ELSE 0]

\* GET /proposals/{id}
api_get_proposal(r) ==
    /\ AtRoute(r)
    /\ \E pid \in PidInputs :
         LET rows == get_proposal_by_id(proposals, pid, req[r].uid)
             q    == Looked(req[r], "get", pid)
         IN  req' = [req EXCEPT ![r] =
               IF rows = {} THEN Done(q, Resp(404, "proposal not found"))
               ELSE LET p == CHOOSE x \in rows : TRUE
                    IN  IF from_orm(DetailRequired)
                        THEN Done([q EXCEPT !.row = p], Resp(200, "detail"))
                        ELSE Done([q EXCEPT !.row = p], InternalServerError)]
    /\ UNCHANGED <<calc, attrs, users, proposals, next_id, now>>


\* rows in the order of the default sort, updated_at descending
RECURSIVE OrderByUpdatedDesc(_)
OrderByUpdatedDesc(rows) ==
    IF rows = {} THEN <<>>
    ELSE LET m == CHOOSE x \in rows :
                    \A y \in rows : y.updated_at <= x.updated_at
         IN  <<m>> \o OrderByUpdatedDesc(rows \ {m})

\* base_query of get_proposals: the owner's rows, filtered by status if given
base_query(props, uid, status) ==
    {p \in props : p.owner_id = uid /\ (status = "" \/ p.status = status)}

\* offset(skip).limit(limit) of an ordered result
OffsetLimit(seq, skip, limit) ==
    SubSeq(seq, skip + 1, IF skip + limit < Len(seq) THEN skip + limit
                          ELSE Len(seq))

\* GET /proposals, first statement: the count query of get_proposals
api_get_proposals_count(r) ==
    /\ AtRoute(r)
    /\ \E qp \in QueryInputs :
         req' = [req EXCEPT ![r] =
                   [@ EXCEPT !.pc = "second", !.op = "list", !.query = qp,
                             !.tok = NoToken, !.touched = TRUE,
                             !.total = Cardinality(
                                base_query(proposals, req[r].uid, qp.status))]]
    /\ UNCHANGED <<calc, attrs, users, proposals, next_id, now>>

\* GET /proposals, second statement: the page query, then the response
api_get_proposals_page(r) ==
    /\ AtSecond(r, "list")
    /\ LET qp    == req[r].query
           skip  == (qp.page - 1) * qp.page_size
           page  == OffsetLimit(
                      OrderByUpdatedDesc(
                        base_query(proposals, req[r].uid, qp.status)),
                      skip, qp.page_size)
           total == req[r].total
           pages == (total + qp.page_size - 1) \div qp.page_size
       IN  req' = [req EXCEPT ![r] =
             IF page # <<>> /\ ~from_orm(ListItemRequired)
             THEN Done(@, InternalServerError)
             ELSE Done(@, [Resp(200, "list") EXCEPT !.body =
                     [items |-> page, total |-> total, page |-> qp.page,
                      page_size |-> qp.page_size, total_pages |-> pages]])]
    /\ UNCHANGED <<calc, attrs, users, proposals, next_id, now>>

\* total_query of get_proposal_statistics: count of the user's rows
total_query(props, uid) == Cardinality({p \in props : p.owner_id = uid})

\* the grouped count taken over the rows of every user
status_counts_any_owner(props, uid) ==
    [st \in {p.status : p \in props} |->
       Cardinality({p \in props : p.status = st})]

\* status_query of get_proposal_statistics as a dict: one key for each
\* status that occurs among the user's rows, with the number of such rows
status_counts(props, uid) ==
    LET mine == {p \in props : p.owner_id = uid}
    IN  [st \in {p.status : p \in mine} |->
           Cardinality({p \in mine : p.status = st})]

\* dict.get(key, default)
DictGet(d, key, default) == IF key \in DOMAIN d THEN d[key] ELSE default

\* GET /proposals/statistics, first statement: the total count
api_get_statistics_total(r) ==
    /\ AtRoute(r)
    /\ req' = [req EXCEPT ![r] =
                 [@ EXCEPT !.pc = "second", !.op = "statistics",
                           !.tok = NoToken, !.touched = TRUE,
                           !.total = total_query(proposals, req[r].uid)]]
    /\ UNCHANGED <<calc, attrs, users, proposals, next_id, now>>

\* GET /proposals/statistics, second statement: the counts grouped by status
api_get_statistics_group(r) ==
    /\ AtSecond(r, "statistics")
    /\ LET counts == status_counts(proposals, req[r].uid)
       IN  req' = [req EXCEPT ![r] =
             Done(@, [Resp(200, "statistics") EXCEPT !.body =
                [total |-> req[r].total,
                 draft |-> DictGet(counts, "draft", 0),
                 reviewing |-> DictGet(counts, "reviewing", 0),
                 completed |-> DictGet(counts, "completed", 0),
                 submitted |-> DictGet(counts, "submitted", 0)]])]
    /\ UNCHANGED <<calc, attrs, users, proposals, next_id, now>>


(***************************************************************************)
(* Proposal repository: writes.                                            *)
(***************************************************************************)
\* the part of a record that the Proposal class maps to columns
Mapped(f) == [a \in DOMAIN f \cap attrs |-> f[a]]

\* Proposal(**kwargs): the declarative constructor raises TypeError for a
\* keyword that is no attribute of the class
constructor_accepts(kwargs) == \A k \in kwargs : HasAttr(k)

\* keywords create_proposal passes to Proposal(...)
CreateKwargs ==
    {"title", "description", "research_field", "funding_agency",
     "funding_amount", "project_duration", "keywords", "owner_id", "status",
     "version", "word_count"}

\* POST /proposals, first statement: create_proposal checks the user exists
api_create_proposal_user(r) ==
    /\ AtRoute(r)
    /\ req' = [req EXCEPT ![r] =
         IF \E u \in users : u.id = req[r].uid
         THEN [@ EXCEPT !.pc = "second", !.op = "create", !.tok = NoToken]
         ELSE Done([@ EXCEPT !.op = "create", !.tok = NoToken],
                   Resp(400, "user not found"))]
    /\ UNCHANGED <<calc, attrs, users, proposals, next_id, now>>

\* the object create_proposal builds with a version other than 1 and a
\* word count other than 0
CreateRowStale(uid, id, clock) ==
    Mapped([id |-> id, owner_id |-> uid,
            title |-> <<"new">>, status |-> "draft",
            description |-> <<"dn">>,
            version |-> 2, word_count |-> 1,
            structured_content |-> <<>>,
            last_auto_save_at |-> <<>>,
            quality_score |-> 0, updated_at |-> clock])

\* the object create_proposal builds for user uid, as the row the insert
\* stores under the id the sequence hands out
CreateRow(uid, id, clock) ==
    Mapped([id |-> id, owner_id |-> uid,
            title |-> <<"new">>, status |-> "draft",
            description |-> <<"dn">>,
            version |-> 1, word_count |-> 0,
            structured_content |-> <<>>,
            last_auto_save_at |-> <<>>,
            quality_score |-> 0, updated_at |-> clock])

\* POST /proposals, second statement: the Proposal is built, added and
\* committed; any exception but ValueError becomes 500
api_create_proposal_insert(r) ==
    /\ AtSecond(r, "create")
    /\ constructor_accepts(CreateKwargs) => next_id <= MaxId
    /\ IF constructor_accepts(CreateKwargs)
       THEN LET p == CreateRow(req[r].uid, next_id, now)
            IN  /\ proposals' = proposals \cup {p}
                /\ next_id' = next_id + 1
                /\ req' = [req EXCEPT ![r] =
                     Done([@ EXCEPT !.row = p, !.touched = TRUE],
                          [Resp(201, "created") EXCEPT !.body =
                             [proposalId |-> p.id, status |-> p.status]])]
       ELSE /\ req' = [req EXCEPT ![r] = Done(@, Resp(500, "create failed"))]
            /\ UNCHANGED <<proposals, next_id>>
    /\ UNCHANGED <<calc, attrs, users, now>>

\* update_proposal of the repository after its select, lines 261-277: the
\* version check, the fields of the patch, the version increment.  exc names
\* the exception raised ("" for none); row is the object to commit.
update_proposal_apply(row, data, clock) ==
    LET vals    == data.vals
        checked == "version" \in DOMAIN vals
        fail(e) == [exc |-> e, row |-> row, current |-> 0, submitted |-> 0]
    IN  IF checked /\ ~HasAttr("version") THEN fail("AttributeError")
        ELSE IF checked /\ vals.version # row.version
        THEN [exc |-> "ValueError", row |-> row,
              current |-> row.version, submitted |-> vals.version]
        ELSE IF ~HasAttr("version") THEN fail("AttributeError")
        ELSE [exc |-> "", current |-> 0, submitted |-> 0,
              row |-> [a \in DOMAIN row |->
                  IF a = "version"
                  THEN (IF checked THEN vals.version ELSE row.version) + 1
                  ELSE IF a = "last_auto_save_at" THEN <<clock>>
                  ELSE IF a = "updated_at" THEN clock
                  ELSE IF a = "structured_content" /\ a \in DOMAIN vals
                  THEN <<vals[a]>>
                  ELSE IF a \in DOMAIN vals /\ HasAttr(a) THEN vals[a]
                  ELSE row[a]]]

\* the UPDATE a commit flushes: the columns the request changed on its
\* object and updated_at (onupdate), written to the row with the object's
\* primary key
db_update(props, old, new) ==
    { IF p.id = new.id
      THEN [a \in DOMAIN p |-> IF a = "updated_at" \/ new[a] # old[a]
                                THEN new[a] ELSE p[a]]
      ELSE p : p \in props }

\* PUT /proposals/{id}, first statement: the select of update_proposal.  A
\* missing row makes the route raise its 404 inside its own try block, where
\* "except Exception" turns it into 500.
api_update_proposal_select(r) ==
    /\ AtRoute(r)
    /\ \E pid \in PidInputs :
         LET rows == get_proposal_by_id(proposals, pid, req[r].uid)
             q    == Looked(req[r], "update", pid)
         IN  req' = [req EXCEPT ![r] =
               IF rows = {} THEN Done(q, Resp(500, "update failed"))
               ELSE [q EXCEPT !.pc = "second",
                              !.row = CHOOSE x \in rows : TRUE]]
    /\ UNCHANGED <<calc, attrs, users, proposals, next_id, now>>

\* the second statement of PUT /proposals/{id} with the fields of the patch
\* written before the version is compared
update_commit_writes_before_check(r) ==
    /\ AtSecond(r, "update")
    /\ \E patch \in PatchInputs :
         LET data   == WithWordCount(patch)
             res    == update_proposal_apply(req[r].row, data, now)
             forced == update_proposal_apply(req[r].row,
                         [data EXCEPT !.vals =
                            [a \in DOMAIN @ \ {"version"} |-> @[a]]], now)
             q      == [req[r] EXCEPT !.patch = patch]
         IN  /\ res.exc = "" => res.row.version <= MaxVersion
             /\ IF res.exc = "" /\ \E p \in proposals : p.id = res.row.id
                THEN /\ proposals' = db_update(proposals, req[r].row, res.row)
                     /\ req' = [req EXCEPT ![r] =
                          Done(q,
                               [Resp(200, "saved") EXCEPT !.body =
                                  [version |-> res.row.version]])]
                ELSE IF res.exc = "ValueError"
                THEN /\ proposals' = db_update(proposals, req[r].row, forced.row)
                     /\ req' = [req EXCEPT ![r] =
                          Done(q, [Resp(409, "version conflict") EXCEPT
                                     !.current = res.current,
                                     !.submitted = res.submitted])]
                ELSE /\ req' = [req EXCEPT ![r] =
                          Done(q, Resp(500, "update failed"))]
                     /\ UNCHANGED proposals
    /\ UNCHANGED <<calc, attrs, users, next_id, now>>

\* PUT /proposals/{id}, second statement: the patch is applied to the object
\* read and committed; ValueError becomes 409, any other exception 500
update_commit_with(r, patches) ==
    /\ AtSecond(r, "update")
    /\ \E patch \in patches :
         LET res == update_proposal_apply(req[r].row, WithWordCount(patch), now)
             q   == [req[r] EXCEPT !.patch = patch]
         IN  /\ res.exc = "" => res.row.version <= MaxVersion
             /\ IF res.exc = "" /\ \E p \in proposals : p.id = res.row.id
                THEN /\ proposals' = db_update(proposals, req[r].row, res.row)
                     /\ req' = [req EXCEPT ![r] =
                          Done(q,
                               [Resp(200, "saved") EXCEPT !.body =
                                  [version |-> res.row.version]])]
                ELSE /\ req' = [req EXCEPT ![r] =
                          IF res.exc = "ValueError"
                          THEN Done(q, [Resp(409, "version conflict") EXCEPT
                                          !.current = res.current,
                                          !.submitted = res.submitted])
                          ELSE Done(q, Resp(500, "update failed"))]
                     /\ UNCHANGED proposals
    /\ UNCHANGED <<calc, attrs, users, next_id, now>>

\* the second statement with one of the patches of PatchInputs
api_update_proposal_commit(r) == update_commit_with(r, PatchInputs)

(***************************************************************************)
(* Patches by field.  The body of PUT /proposals/{id} is validated against *)
(* ProposalUpdateRequest before the route runs; a body that fails is       *)
(* answered 422 by the framework.                                          *)
(***************************************************************************)
\* patches that set one field or the structured content: a title, the
\* title the stored proposal has, each status, a status outside the
\* enumeration, the structured content with and without a word count, and
\* a description given as null
FieldPatchInputs ==
    { [vals |-> [title |-> t], nulls |-> {}] : t \in {<<"renamed">>, <<"t1">>} }
      \cup { [vals |-> [status |-> st], nulls |-> {}] :
               st \in ProposalStatus \cup {"archived"} }
      \cup { [vals |-> [structured_content |-> SampleContent], nulls |-> {}],
              [vals |-> [structured_content |-> SampleContent,
                         word_count |-> 9], nulls |-> {}],
              [vals |-> <<>>, nulls |-> {"description"}] }

\* validation that lets every status pass
validates_any_status(patch) == TRUE

\* ProposalUpdateRequest: status is Optional[ProposalStatus]
validates(patch) ==
    "status" \in DOMAIN patch.vals => patch.vals.status \in ProposalStatus

\* PUT /proposals/{id} with a body that fails validation
api_update_proposal_unprocessable(r) ==
    /\ AtRoute(r)
    /\ \E patch \in FieldPatchInputs :
         /\ ~validates(patch)
         /\ req' = [req EXCEPT ![r] =
                      Done([@ EXCEPT !.op = "update", !.tok = NoToken,
                                     !.patch = patch],
                           Resp(422, "Unprocessable Entity"))]
    /\ UNCHANGED <<calc, attrs, users, proposals, next_id, now>>

\* the second statement with a valid patch of FieldPatchInputs
api_update_proposal_fields(r) ==
    update_commit_with(r, {patch \in FieldPatchInputs : validates(patch)})


\* DELETE /proposals/{id}, first statement: the select of delete_proposal
api_delete_proposal_select(r) ==
    /\ AtRoute(r)
    /\ \E pid \in PidInputs :
         LET rows == get_proposal_by_id(proposals, pid, req[r].uid)
             q    == Looked(req[r], "delete", pid)
         IN  req' = [req EXCEPT ![r] =
               IF rows = {} THEN Done(q, Resp(404, "proposal not found"))
               ELSE [q EXCEPT !.pc = "second",
                              !.row = CHOOSE x \in rows : TRUE]]
    /\ UNCHANGED <<calc, attrs, users, proposals, next_id, now>>

\* the DELETE a commit flushes: the row with the object's primary key leaves
\* the table (no such row left: a warning, no error)
db_delete(props, obj) == {p \in props : p.id # obj.id}

\* DELETE /proposals/{id}, second statement: db.delete and commit
api_delete_proposal_commit(r) ==
    /\ AtSecond(r, "delete")
    /\ proposals' = db_delete(proposals, req[r].row)
    /\ req' = [req EXCEPT ![r] = Done(@, Resp(204, ""))]
    /\ UNCHANGED <<calc, attrs, users, next_id, now>>

\* attributes duplicate_proposal reads from the source object
DuplicateReads ==
    {"title", "description", "content", "structured_content",
     "research_field", "funding_agency", "funding_amount", "project_duration",
     "keywords", "word_count"}

\* keywords duplicate_proposal passes to Proposal(...)
DuplicateKwargs ==
    {"title", "description", "content", "structured_content",
     "research_field", "funding_agency", "funding_amount", "project_duration",
     "keywords", "owner_id", "status", "version", "word_count"}

\* what duplicate_proposal appends to the source title (the source text
\* has the two characters of the Chinese word for copy in the brackets)
CopySuffix == " (copy)"

\* new_title of POST /proposals/{id}/duplicate: a title, or the empty tuple
\* for a value that "not new_title" takes as absent (None, the empty string)
TitleInputs == { <<>>, <<"copy">> }

\* POST /proposals/{id}/duplicate, first statement: the select of
\* duplicate_proposal.  A missing source makes the route raise its 404 inside
\* its own try block, where "except Exception" turns it into 500.
api_duplicate_proposal_select(r) ==
    /\ AtRoute(r)
    /\ \E pid \in PidInputs :
         LET rows == get_proposal_by_id(proposals, pid, req[r].uid)
             q    == Looked(req[r], "duplicate", pid)
         IN  req' = [req EXCEPT ![r] =
               IF rows = {} THEN Done(q, Resp(500, "duplicate failed"))
               ELSE [q EXCEPT !.pc = "second",
                              !.row = CHOOSE x \in rows : TRUE]]
    /\ UNCHANGED <<calc, attrs, users, proposals, next_id, now>>

\* the copy with the status and the version of the source kept
DuplicateRowKeepsState(original, title, id, clock) ==
    Mapped([a \in DOMAIN original |->
              IF a = "id" THEN id
              ELSE IF a = "title" THEN title
              ELSE IF a = "last_auto_save_at" THEN <<>>
              ELSE IF a = "quality_score" THEN 0
              ELSE IF a = "updated_at" THEN clock
              ELSE original[a]])

\* the copy with the word count left at the column default
DuplicateRowDropsCount(original, title, id, clock) ==
    Mapped([a \in DOMAIN original |->
              IF a = "id" THEN id
              ELSE IF a = "title" THEN title
              ELSE IF a = "status" THEN "draft"
              ELSE IF a = "version" THEN 1
              ELSE IF a = "word_count" THEN 0
              ELSE IF a = "last_auto_save_at" THEN <<>>
              ELSE IF a = "quality_score" THEN 0
              ELSE IF a = "updated_at" THEN clock
              ELSE original[a]])

\* the object duplicate_proposal builds from the source it read, as the row
\* the insert stores: the fields it passes on are copied, status and version
\* are set, the columns it does not pass take their defaults
DuplicateRow(original, title, id, clock) ==
    Mapped([a \in DOMAIN original |->
              IF a = "id" THEN id
              ELSE IF a = "title" THEN title
              ELSE IF a = "status" THEN "draft"
              ELSE IF a = "version" THEN 1
              ELSE IF a = "last_auto_save_at" THEN <<>>
              ELSE IF a = "quality_score" THEN 0
              ELSE IF a = "updated_at" THEN clock
              ELSE original[a]])

\* POST /proposals/{id}/duplicate, second statement: the copy is built from
\* the source read, added and committed; any exception becomes 500
api_duplicate_proposal_insert(r) ==
    /\ AtSecond(r, "duplicate")
    /\ (/\ \A a \in DuplicateReads : HasAttr(a)
        /\ constructor_accepts(DuplicateKwargs)) => next_id <= MaxId
    /\ \E new_title \in TitleInputs :
         LET original == req[r].row
             title == IF new_title = <<>>
                      THEN Append(original.title, CopySuffix)
                      ELSE new_title
             q     == [req[r] EXCEPT !.patch =
                         [vals |-> [new_title |-> new_title], nulls |-> {}]]
         IN  IF /\ \A a \in DuplicateReads : HasAttr(a)
                /\ constructor_accepts(DuplicateKwargs)
             THEN LET p == DuplicateRow(original, title, next_id, now)
                  IN  /\ proposals' = proposals \cup {p}
                      /\ next_id' = next_id + 1
                      /\ req' = [req EXCEPT ![r] =
                           Done(q, [Resp(201, "duplicated") EXCEPT !.body =
                              [proposalId |-> p.id, status |-> p.status]])]
             ELSE /\ req' = [req EXCEPT ![r] =
                       Done(q, Resp(500, "duplicate failed"))]
                  /\ UNCHANGED <<proposals, next_id>>
    /\ UNCHANGED <<calc, attrs, users, now>>

(***************************************************************************)
(* Authentication routes (api/v1/auth.py).  A users row carries, besides   *)
(* id, email and is_active, the columns username, hashed_password and      *)
(* last_login (<<>> for NULL).  Every account here was registered with the *)
(* password "pw".                                                          *)
(***************************************************************************)
RightPassword == Text(<< <<"p", 1>>, <<"w", 1>> >>)

WrongPassword == Text(<< <<"p", 1>>, <<"W", 1>> >>)

\* email.split('@')[0]; the stored addresses are written by their local part
LocalPart(email) ==
    IF email \in {"dave@x", "dave@y"} THEN "dave" ELSE email

\* the users row of a stored account
UserRow(u) ==
    [id |-> u.id, email |-> u.email, is_active |-> u.is_active,
     username |-> LocalPart(u.email),
     hashed_password |-> get_password_hash(RightPassword, "salt1"),
     last_login |-> <<>>]

AuthUsers == { UserRow(u) : u \in StoredUsers }

\* addresses asked to register: one that is taken and two new ones with the
\* same local part
RegisterEmails == {"alice", "dave@x", "dave@y"}

\* addresses and passwords offered at login
LoginEmails == {"alice", "carol", "ghost", "dave@x"}

LoginPasswords == {RightPassword, WrongPassword}

\* the 401 of login
incorrect_email_or_password ==
    [Resp(401, "Incorrect email or password") EXCEPT !.bearer = TRUE]

\* POST /auth/register, first statement: select the user with this email
api_register_select(r) ==
    /\ req[r].pc = "idle"
    /\ \E e \in RegisterEmails :
         LET q == [IdleReq EXCEPT !.router = "auth", !.op = "register",
                                  !.form = [email |-> e,
                                            password |-> RightPassword]]
         IN  req' = [req EXCEPT ![r] =
               IF \E u \in users : u.email = e
               THEN Done(q, Resp(400, "Email already registered"))
               ELSE [q EXCEPT !.pc = "second"]]
    /\ UNCHANGED <<calc, attrs, users, proposals, next_id, now>>

\* the second statement of POST /auth/register on a users table whose
\* username column carries no unique index
api_register_commit_email_index_only(r) ==
    /\ AtSecond(r, "register")
    /\ LET e == req[r].form.email
           new_user ==
             [id |-> Cardinality(users) + 1, email |-> e, is_active |-> TRUE,
              username |-> LocalPart(e),
              hashed_password |->
                 get_password_hash(req[r].form.password, "salt2"),
              last_login |-> <<>>]
       IN  IF \E u \in users : u.email = e
           THEN /\ req' = [req EXCEPT ![r] = Done(@, InternalServerError)]
                /\ UNCHANGED users
           ELSE /\ users' = users \cup {new_user}
                /\ req' = [req EXCEPT ![r] =
                             Done([@ EXCEPT !.uid = new_user.id],
                                  Resp(201, "user"))]
    /\ UNCHANGED <<calc, attrs, proposals, next_id, now>>

\* POST /auth/register, second statement: db.add(new_user), commit.  The
\* unique indexes on email and on username reject the INSERT with an
\* IntegrityError, which no handler catches.  db.refresh reads the new row
\* back.
api_register_commit(r) ==
    /\ AtSecond(r, "register")
    /\ LET e == req[r].form.email
           new_user ==
             [id |-> Cardinality(users) + 1, email |-> e, is_active |-> TRUE,
              username |-> LocalPart(e),
              hashed_password |->
                 get_password_hash(req[r].form.password, "salt2"),
              last_login |-> <<>>]
       IN  IF \E u \in users :
                u.email = e \/ u.username = new_user.username
           THEN /\ req' = [req EXCEPT ![r] = Done(@, InternalServerError)]
                /\ UNCHANGED users
           ELSE /\ users' = users \cup {new_user}
                /\ req' = [req EXCEPT ![r] =
                             Done([@ EXCEPT !.uid = new_user.id],
                                  Resp(201, "user"))]
    /\ UNCHANGED <<calc, attrs, proposals, next_id, now>>

\* the first statement of POST /auth/login in a variant that turns a
\* disabled account away
api_login_select_active_only(r) ==
    /\ req[r].pc = "idle"
    /\ \E e \in LoginEmails, pw \in LoginPasswords :
         LET q == [IdleReq EXCEPT !.router = "auth", !.op = "login",
                                  !.form = [email |-> e, password |-> pw]]
             found == {u \in users : u.email = e}
         IN  req' = [req EXCEPT ![r] =
               IF found = {} THEN Done(q, incorrect_email_or_password)
               ELSE LET user == CHOOSE u \in found : TRUE
                    IN  IF ~verify_password(pw, user.hashed_password)
                        THEN Done(q, incorrect_email_or_password)
                        ELSE IF ~user.is_active
                        THEN Done(q, Resp(400, "Inactive user"))
                        ELSE [q EXCEPT !.pc = "second", !.uid = user.id]]
    /\ UNCHANGED <<calc, attrs, users, proposals, next_id, now>>

\* POST /auth/login, first statement: select the user with this email, then
\* check the password
api_login_select(r) ==
    /\ req[r].pc = "idle"
    /\ \E e \in LoginEmails, pw \in LoginPasswords :
         LET q == [IdleReq EXCEPT !.router = "auth", !.op = "login",
                                  !.form = [email |-> e, password |-> pw]]
             found == {u \in users : u.email = e}
         IN  req' = [req EXCEPT ![r] =
               IF found = {} THEN Done(q, incorrect_email_or_password)
               ELSE LET user == CHOOSE u \in found : TRUE
                    IN  IF ~verify_password(pw, user.hashed_password)
                        THEN Done(q, incorrect_email_or_password)
                        ELSE [q EXCEPT !.pc = "second", !.uid = user.id]]
    /\ UNCHANGED <<calc, attrs, users, proposals, next_id, now>>

\* POST /auth/login, second statement: user.last_login = utcnow(), commit;
\* then the token for the email is created and returned
api_login_commit(r) ==
    /\ AtSecond(r, "login")
    /\ users' = { IF u.id = req[r].uid
                  THEN [u EXCEPT !.last_login = <<now>>] ELSE u : u \in users }
    /\ req' = [req EXCEPT ![r] =
                 Done(@, [Resp(200, "token") EXCEPT !.body =
                    [access_token |->
                        create_access_token(req[r].form.email, <<>>, now),
                     token_type |-> "bearer"]])]
    /\ UNCHANGED <<calc, attrs, proposals, next_id, now>>

\* the access tokens that logins have returned and whose responses are
\* still at hand
IssuedTokens ==
    { req[x].resp.body.access_token :
        x \in { y \in Reqs : req[y].pc = "done" /\ req[y].op = "login"
                               /\ req[y].resp.code = 200 } }

\* GET /auth/me with a token that a login returned
api_get_me(r) == resolve_with(r, {"auth"}, IssuedTokens)

(***************************************************************************)
(* Environment and specification.                                          *)
(***************************************************************************)
\* time passes
Tick ==
    /\ now < MaxTime
    /\ now' = now + 1
    /\ UNCHANGED <<calc, attrs, users, proposals, next_id, req>>

\* the response has been delivered; the slot takes the next request
Retire(r) ==
    /\ req[r].pc = "done"
    /\ req' = [req EXCEPT ![r] = IdleReq]
    /\ UNCHANGED <<calc, attrs, users, proposals, next_id, now>>

\* the service starts on the store, with the Proposal class as it is mapped
Init ==
    /\ attrs = ProposalAttrs
    /\ users = StoredUsers
    /\ proposals = StoredProposals
    /\ next_id = Cardinality(StoredProposals) + 1
    /\ now = 0
    /\ req = [r \in Reqs |-> IdleReq]
    /\ calc = NoCalc

Next ==
    \/ Tick
    \/ \E r \in Reqs :
         \/ resolve_dependencies(r)
         \/ api_get_proposals_count(r)
         \/ api_get_proposals_page(r)
         \/ api_get_statistics_total(r)
         \/ api_get_statistics_group(r)
         \/ api_get_proposal(r)
         \/ api_create_proposal_user(r)
         \/ api_create_proposal_insert(r)
         \/ api_update_proposal_select(r)
         \/ api_update_proposal_commit(r)
         \/ api_delete_proposal_select(r)
         \/ api_delete_proposal_commit(r)
         \/ api_duplicate_proposal_select(r)
         \/ api_duplicate_proposal_insert(r)
         \/ Retire(r)

Spec == Init /\ [][Next]_vars

(***************************************************************************)
(* The versioning rule on a store that has the columns it works on: the    *)
(* Proposal class with the attributes of CrudAttrs added, and the          *)
(* operations that change or remove a stored proposal.                     *)
(***************************************************************************)
InitVersioning ==
    /\ attrs = ProposalAttrs \cup CrudAttrs
    /\ users = StoredUsers
    /\ proposals = MigratedProposals
    /\ next_id = Cardinality(MigratedProposals) + 1
    /\ now = 0
    /\ req = [r \in Reqs |-> IdleReq]
    /\ calc = NoCalc

NextVersioning ==
    \/ Tick
    \/ \E r \in Reqs :
         \/ resolve_dependencies(r)
         \/ api_update_proposal_select(r)
         \/ api_update_proposal_commit(r)
         \/ api_delete_proposal_select(r)
         \/ api_delete_proposal_commit(r)
         \/ Retire(r)

SpecVersioning == InitVersioning /\ [][NextVersioning]_vars

(***************************************************************************)
(* The operations that insert proposals, on the store with the attributes  *)
(* of CrudAttrs: create and duplicate.  alice owns a draft at version 1     *)
(* and a submitted proposal at version 7 with a word count of 3.           *)
(***************************************************************************)
CopySources ==
    { IF p.status = "submitted"
      THEN [MigratedRow(p, 7) EXCEPT !.word_count = 3,
                                     !.structured_content = <<SampleContent>>]
      ELSE MigratedRow(p, 1) :
        p \in { q \in StoredProposals : q.owner_id = 1 } }

InitCopies ==
    /\ attrs = ProposalAttrs \cup CrudAttrs
    /\ users = StoredUsers
    /\ proposals = CopySources
    /\ next_id = Cardinality(CopySources) + 1
    /\ now = 0
    /\ req = [r \in Reqs |-> IdleReq]
    /\ calc = NoCalc

NextCopies ==
    \/ Tick
    \/ \E r \in Reqs :
         \/ resolve_dependencies(r)
         \/ api_create_proposal_user(r)
         \/ api_create_proposal_insert(r)
         \/ api_duplicate_proposal_select(r)
         \/ api_duplicate_proposal_insert(r)
         \/ Retire(r)

SpecCopies == InitCopies /\ [][NextCopies]_vars

(***************************************************************************)
(* The password and token functions of core/security.py, applied to        *)
(* bounded inputs while time passes.                                       *)
(***************************************************************************)
InitSecurity ==
    /\ attrs = ProposalAttrs
    /\ users = StoredUsers
    /\ proposals = StoredProposals
    /\ next_id = Cardinality(StoredProposals) + 1
    /\ now = 0
    /\ req = [r \in Reqs |-> IdleReq]
    /\ calc = NoCalc

NextSecurity ==
    \/ HashPassword
    \/ VerifyPassword
    \/ IssueToken
    \/ PresentAltered
    \/ VerifyToken
    \/ Forget
    \/ Elapse

SpecSecurity == InitSecurity /\ [][NextSecurity]_vars

(***************************************************************************)
(* The authentication routes: register, login and GET /auth/me with the    *)
(* tokens that logins return.                                              *)
(***************************************************************************)
InitAuth ==
    /\ attrs = ProposalAttrs
    /\ users = AuthUsers
    /\ proposals = StoredProposals
    /\ next_id = Cardinality(StoredProposals) + 1
    /\ now = 0
    /\ req = [r \in Reqs |-> IdleReq]
    /\ calc = NoCalc

NextAuth ==
    \/ Tick
    \/ \E r \in Reqs :
         \/ api_register_select(r)
         \/ api_register_commit(r)
         \/ api_login_select(r)
         \/ api_login_commit(r)
         \/ api_get_me(r)
         \/ Retire(r)

SpecAuth == InitAuth /\ [][NextAuth]_vars

(***************************************************************************)
(* The word count functions of crud/proposal.py, applied to bounded        *)
(* structured contents.                                                    *)
(***************************************************************************)
InitWordCount == InitSecurity

NextWordCount ==
    \/ CountWords
    \/ Forget

SpecWordCount == InitWordCount /\ [][NextWordCount]_vars

(***************************************************************************)
(* Updates field by field, on the store with the attributes of CrudAttrs:  *)
(* alice's proposal 1 at version 1 in any of the four statuses, holding    *)
(* the sample content with its word count of 3.  The clock stands still.   *)
(***************************************************************************)
PatchedRow(st) ==
    [MigratedRow(CHOOSE p \in StoredProposals : p.id = 1, 1)
       EXCEPT !.status = st, !.word_count = 3,
              !.structured_content = <<SampleContent>>]

\* requests of alice on the proposals router
resolve_owner(r) ==
    resolve_with(r, {"proposals"}, {Token("alice", MaxTime)})

InitFields ==
    /\ attrs = ProposalAttrs \cup CrudAttrs
    /\ users = StoredUsers
    /\ \E st \in ProposalStatus : proposals = {PatchedRow(st)}
    /\ next_id = 2
    /\ now = 0
    /\ req = [r \in Reqs |-> IdleReq]
    /\ calc = NoCalc

NextFields ==
    \E r \in Reqs :
         \/ resolve_owner(r)
         \/ api_update_proposal_select(r)
         \/ api_update_proposal_unprocessable(r)
         \/ api_update_proposal_fields(r)
         \/ Retire(r)

SpecFields == InitFields /\ [][NextFields]_vars

(***************************************************************************)
(* Properties.                                                             *)
(***************************************************************************)
\* request r has answered route op
Finished(r, op) == req[r].pc = "done" /\ req[r].op = op

\* the select of request r returned a row
FoundRow(r) == req[r].row.id # 0

\* the patch of request r carries a version
CarriesVersion(r) == "version" \in DOMAIN req[r].patch.vals

\* request r carried the version of the row it read
EchoesVersion(r) ==
    /\ CarriesVersion(r)
    /\ "version" \in DOMAIN req[r].row
    /\ req[r].patch.vals.version = req[r].row.version

\* the routes that name one proposal
ById == {"get", "update", "delete", "duplicate"}

\* q named a proposal that was stored and owned by somebody else
ForeignIn(q) == q.op \in ById /\ q.owner # 0 /\ q.owner # q.uid

\* q named an id under which nothing was stored
AbsentIn(q) == q.op \in ById /\ q.touched /\ q.owner = 0

\* the user a request was resolved to is active
ActiveUid(uid) == \E u \in users : u.id = uid /\ u.is_active

C2_VersionedUpdateAnswers ==
    \A r \in Reqs :
      ( /\ Finished(r, "update") /\ FoundRow(r) /\ CarriesVersion(r)
        /\ \E p \in proposals : p.id = req[r].row.id )
      => \/ /\ req[r].resp.code = 200
            /\ EchoesVersion(r)
            /\ req[r].resp.body.version = req[r].patch.vals.version + 1
         \/ /\ req[r].resp.code = 409
            /\ "version" \in DOMAIN req[r].row
            /\ req[r].row.version # req[r].patch.vals.version
            /\ req[r].resp.current = req[r].row.version
            /\ req[r].resp.submitted = req[r].patch.vals.version

C5_OwnershipIsolation ==
    /\ [](\A r1, r2 \in Reqs :
            ( /\ req[r1].pc = "done" /\ req[r2].pc = "done"
              /\ req[r1].op = req[r2].op
              /\ ForeignIn(req[r1]) /\ AbsentIn(req[r2]) )
            => req[r1].resp = req[r2].resp)
    /\ [][ \A r \in Reqs :
             (req'[r] # req[r] /\ ForeignIn(req'[r]))
             => proposals' = proposals ]_vars

\* C5 witness: one update named a proposal of another owner, one update an
\* id nothing is stored under, and both have been answered
C5_Witness ==
    \E r1, r2 \in Reqs :
      /\ Finished(r1, "update") /\ Finished(r2, "update")
      /\ ForeignIn(req[r1]) /\ AbsentIn(req[r2])
      /\ \E p \in proposals : p.id = req[r1].pid /\ p.owner_id # req[r1].uid

\* C6: a resolved user whose is_active flag is false gets the inactive
\* account refusal (400) from every proposal operation, and the operation
\* never issues a statement on the proposals table.
C6_InactiveRefused ==
    \A r \in Reqs :
      ( /\ req[r].router = "proposals"
        /\ req[r].uid # 0
        /\ ~ActiveUid(req[r].uid) )
      => /\ req[r].pc = "done"
         /\ req[r].resp.code = 400
         /\ ~req[r].touched

\* the token verifies at time clock: it parses, is signed with the server
\* key, is not expired and names a subject
TokenValid(t, clock) ==
    /\ t.kind = "jwt"
    /\ t.signed
    /\ t.exp >= clock
    /\ t.sub # ""

\* C7: resolving the caller fails with 401 and the Bearer challenge when the
\* token does not verify or no user has the token's subject as email; a user
\* is returned only when the token is valid, and it is the user whose email
\* equals the subject.
C7_ResolveOrChallenge ==
    [][ \A r \in Reqs :
          (req[r].pc = "idle" /\ req'[r].pc # "idle")
          => LET t     == req'[r].tok
                 known == \E u \in users : u.email = t.sub
             IN  /\ (~TokenValid(t, now) \/ ~known)
                     => /\ req'[r].pc = "done"
                        /\ req'[r].resp.code = 401
                        /\ req'[r].resp.bearer
                        /\ req'[r].uid = 0
                 /\ req'[r].uid # 0
                     => /\ TokenValid(t, now)
                        /\ \E u \in users :
                             u.id = req'[r].uid /\ u.email = t.sub
                 /\ (TokenValid(t, now) /\ known) => req'[r].uid # 0 ]_vars

\* C7 witness: a well signed, unexpired token whose subject no user has was
\* answered 401 with the challenge, and another request was resolved to a
\* user
C7_Witness ==
    \E r1, r2 \in Reqs :
      /\ req[r1].pc = "done"
      /\ req[r1].tok = Token("ghost", MaxTime)
      /\ req[r1].resp.code = 401 /\ req[r1].resp.bearer
      /\ req[r2].pc = "route"
      /\ req[r2].uid # 0

\* C8: an update that names an (id, owner) pair no proposal has is answered
\* not found (404) and changes nothing.
C8_UpdateAbsentNotFound ==
    \A r \in Reqs :
      (Finished(r, "update") /\ ~FoundRow(r)) => req[r].resp.code = 404

\* C9: a duplicate that names an (id, owner) pair no proposal has is
\* answered not found (404) and inserts nothing.
C9_DuplicateAbsentNotFound ==
    \A r \in Reqs :
      (Finished(r, "duplicate") /\ ~FoundRow(r)) => req[r].resp.code = 404

\* C10: after a delete of an owned proposal has succeeded (204) the proposal
\* is stored no more, and get, update, delete and duplicate that the same
\* owner then issues on that id are all answered not found (404).
C10_DeletedIsGone ==
    \A r1, r2 \in Reqs :
      ( /\ Finished(r1, "delete") /\ req[r1].resp.code = 204 )
      => /\ ~\E p \in proposals : p.id = req[r1].pid
         /\ ( /\ req[r2].pc = "done"
              /\ req[r2].uid = req[r1].uid
              /\ req[r2].pid = req[r1].pid
              /\ AbsentIn(req[r2]) )
            => req[r2].resp.code = 404

\* the step is request r's successful insert through route op
Inserted(r, op) ==
    /\ AtSecond(r, op)
    /\ req'[r].pc = "done"
    /\ req'[r].resp.code = 201

CopiedAttrs ==
    {"description", "content", "structured_content", "research_field",
     "funding_agency", "funding_amount", "project_duration", "keywords",
     "word_count"}

Verified == calc.op = "verified"

\* the lifetime the caller asked for, the configured one when none is given
TtlAsked ==
    IF calc.delta = <<>> THEN JWT_ACCESS_TOKEN_EXPIRE ELSE calc.delta[1]

\* the lifetime with a ttl of zero counted as not given
TtlUsed ==
    IF calc.delta \in {<<>>, <<0>>} THEN JWT_ACCESS_TOKEN_EXPIRE
    ELSE calc.delta[1]

\* the presented text decodes to the header, payload and signature bytes
\* that were issued
DecodesAsIssued ==
    /\ calc.presented.kind = calc.token.kind
    /\ calc.presented.signed = calc.token.signed
    /\ calc.presented.sub = calc.token.sub
    /\ calc.presented.exp = calc.token.exp

Checked == calc.op = "checked"

\* C14: verifying a password against its own hash succeeds, and verifying
\* any different password against that hash fails, also when both are
\* longer than 72 bytes and differ only near the end; hashing and verifying
\* hand bcrypt the same bytes, the digest text for a password of more than
\* 72 bytes and the password itself otherwise.
C14_PasswordRoundTrip ==
    /\ calc.op \in {"hashed", "checked"} =>
         calc.hashed.key = IF ByteLen(calc.password) > BcryptLimit
                           THEN Sha256Base64(calc.password)
                           ELSE calc.password
    /\ Checked => (calc.ok <=> calc.candidate = calc.password)

(***************************************************************************)
(* Statistics and list (Spec).                                             *)
(***************************************************************************)
\* the number of stored proposals of user uid, in status st if st is given
Owned(uid, st) ==
    Cardinality({p \in proposals :
                   p.owner_id = uid /\ (st = "" \/ p.status = st)})

\* C15: statistics counts the caller's proposals: the first statement
\* takes total as the number of proposals the caller owns, and the answer
\* carries that total and, under exactly the keys draft, reviewing,
\* completed and submitted, the number of the caller's proposals in that
\* status, 0 where there is none; proposals of other users are not counted.
C15_StatisticsCountsOwn ==
    [][\A r \in Reqs :
         /\ (req[r].pc = "route" /\ req'[r].pc = "second"
               /\ req'[r].op = "statistics")
              => req'[r].total = Owned(req[r].uid, "")
         /\ (req[r].pc = "second" /\ req[r].op = "statistics"
               /\ req'[r].pc = "done")
              => /\ req'[r].resp.code = 200
                 /\ DOMAIN req'[r].resp.body = {"total"} \cup ProposalStatus
                 /\ req'[r].resp.body.total = req[r].total
                 /\ \A st \in ProposalStatus :
                      req'[r].resp.body[st] = Owned(req[r].uid, st)]_vars

\* alice, who owns a draft and a submitted proposal, was told total 2 and
\* reviewing 0 while the store holds a proposal of another user in review
C15_Witness ==
    \E r \in Reqs :
        /\ Finished(r, "statistics")
        /\ req[r].uid = 1
        /\ req[r].resp.body.total = 2
        /\ req[r].resp.body.reviewing = 0
        /\ \E p \in proposals : p.owner_id # 1 /\ p.status = "reviewing"

\* the caller's rows that pass the status filter of query qp, newest first
Matching(uid, qp) ==
    OrderByUpdatedDesc({p \in proposals :
                          p.owner_id = uid
                            /\ (qp.status = "" \/ p.status = qp.status)})

\* C16: list answers with the caller's proposals that pass the filters:
\* total is the number of such rows, the page holds exactly the rows at
\* positions (page-1)*page_size+1 .. min(page*page_size, total) of the
\* sorted result, and total_pages is total / page_size rounded up.
C16_ListPage ==
    [][\A r \in Reqs :
         /\ (req[r].pc = "route" /\ req'[r].pc = "second"
               /\ req'[r].op = "list")
              => req'[r].total = Len(Matching(req[r].uid, req'[r].query))
         /\ (req[r].pc = "second" /\ req[r].op = "list"
               /\ req'[r].pc = "done")
              => LET qp     == req[r].query
                     body   == req'[r].resp.body
                     sorted == Matching(req[r].uid, qp)
                     lo     == (qp.page - 1) * qp.page_size + 1
                     hi     == IF qp.page * qp.page_size < req[r].total
                               THEN qp.page * qp.page_size ELSE req[r].total
                 IN  /\ req'[r].resp.code = 200
                     /\ body.total = req[r].total
                     /\ Len(body.items) = IF hi < lo THEN 0 ELSE hi - lo + 1
                     /\ \A i \in 1 .. Len(body.items) :
                          /\ lo + i - 1 <= Len(sorted)
                          /\ body.items[i] = sorted[lo + i - 1]
                     /\ body.total_pages * qp.page_size >= body.total
                     /\ (body.total_pages - 1) * qp.page_size < body.total
                ]_vars

UniqueEmails ==
    \A u1, u2 \in users : u1.email = u2.email => u1 = u2

\* request r takes the step that ends route op
Ends(r, op) == req[r].op = op /\ req[r].pc # "done" /\ req'[r].pc = "done"

\* request r takes the first step of route op
Begins(r, op) == req[r].pc = "idle" /\ req'[r].op = op

\* C17: no two users ever share an email, and a registration whose email
\* already belongs to a user is answered 400 'Email already registered' and
\* creates no user, whether the email was taken when the request arrived
\* or was taken by another registration between its existence check and
\* its insert.
C17_EmailTakenConflict ==
    /\ []UniqueEmails
    /\ [][\A r \in Reqs :
           ( /\ Begins(r, "register") \/ Ends(r, "register")
             /\ req'[r].pc = "done"
             /\ \E u \in users : u.email = req'[r].form.email )
           => /\ req'[r].resp.code = 400
              /\ req'[r].resp.detail = "Email already registered"
              /\ users' = users]_vars

\* the lifetime of the token a login returns
LoginTokenValid(t, email, clock) ==
    /\ TokenValid(t, clock)
    /\ t.sub = email
    /\ t.exp = clock + JWT_ACCESS_TOKEN_EXPIRE

C21_VerifyNeverRaises ==
    Verified =>
      LET t == calc.presented
      IN  /\ calc.result \in SubjectInputs
          /\ (t.kind # "jwt" \/ ~t.signed \/ t.exp < calc.at \/ t.sub = "")
               => calc.result = ""
          /\ calc.result # ""
               => /\ t.kind = "jwt" /\ t.signed /\ t.exp >= calc.at
                  /\ calc.result = t.sub

\* a correctly signed token that carries no subject was verified in time
\* and the answer was None
C21_Witness ==
    /\ Verified
    /\ calc.presented.kind = "jwt" /\ calc.presented.signed
    /\ calc.presented.exp >= calc.at
    /\ calc.presented.sub = ""
    /\ calc.result = ""

(***************************************************************************)
(* Word count (SpecWordCount).                                             *)
(***************************************************************************)
\* the number of characters left of a text once every substring matching
\* <[^>]+> is removed, each run of whitespace is one space and the ends are
\* trimmed, for the texts of SectionValues
CharsLeft(v) ==
    CASE v = HelloWorld -> 11
      [] v = Padded -> 1
      [] v = EmptyTag -> 2
      [] v = DoubleOpen -> 1
      [] v = Markup -> 3
      [] v = SampleContent.abstract -> 3
      [] OTHER -> 0

RECURSIVE SumCharsLeft(_, _)
SumCharsLeft(sc, names) ==
    IF names = {} THEN 0
    ELSE LET n == CHOOSE x \in names : TRUE
         IN  CharsLeft(sc[n]) + SumCharsLeft(sc, names \ {n})

\* C22: the word count of a structured content is the sum, over its
\* sections whose value is a text, of the number of characters left after
\* the tags are removed, whitespace runs are collapsed and the text is
\* trimmed; absent, empty and non-text sections contribute 0.
C22_WordCountSum ==
    calc.op = "counted"
      => calc.count = SumCharsLeft(calc.content, DOMAIN calc.content)

\* {abstract: "<p>Hello  world</p>", background: ""} was counted as 11
C22_Witness ==
    /\ calc.op = "counted"
    /\ calc.content = [abstract |-> HelloWorld, background |-> <<>>]
    /\ calc.count = 11

(***************************************************************************)
(* Updates field by field (SpecFields).                                    *)
(***************************************************************************)
\* request r takes the step in which its update succeeds
UpdateSucceeds(r) == Ends(r, "update") /\ req'[r].resp.code = 200

\* the proposal with the id that request r read, as stored before and
\* after the step
StoredBefore(r) == CHOOSE p \in proposals : p.id = req[r].row.id

StoredAfter(r) == CHOOSE p \in proposals' : p.id = req[r].row.id

PatchFields ==
    {"title", "description", "structured_content", "word_count", "version",
     "status", "quality_score"}

\* the value a stored row holds for a field that a patch gave as v
StoredAs(a, v) == IF a = "structured_content" THEN <<v>> ELSE v

UniqueUsernames ==
    \A u1, u2 \in users : u1.username = u2.username => u1 = u2

\* some user other than the holder of this email has its local part as
\* username
UsernameTaken(email) ==
    \E u \in users : u.username = LocalPart(email) /\ u.email # email

\* C28: of two registrations with different emails and the same local
\* part, one after the other or concurrently, at most one creates a user
\* with that username: the other passes the email check, is rejected at
\* its insert by the unique index on username, is answered with the
\* internal server error (500, not a 4xx conflict) and creates no user.
C28_UsernameClash ==
    /\ []UniqueUsernames
    /\ [][\A r \in Reqs :
           /\ ( /\ Begins(r, "register")
                /\ UsernameTaken(req'[r].form.email)
                /\ ~\E u \in users : u.email = req'[r].form.email )
                => req'[r].pc = "second" /\ users' = users
           /\ ( /\ Ends(r, "register") /\ req[r].pc = "second"
                /\ UsernameTaken(req[r].form.email) )
                => /\ req'[r].resp = Resp(500, "Internal Server Error")
                   /\ users' = users]_vars

\* dave@x and dave@y both asked to register; one was created as user dave,
\* the other was answered 500 and is no user, and one user named dave is
\* stored
C28_Witness ==
    \E r1, r2 \in Reqs :
        /\ Finished(r1, "register") /\ req[r1].resp.code = 201
        /\ Finished(r2, "register") /\ req[r2].resp.code = 500
        /\ req[r1].form.email # req[r2].form.email
        /\ LocalPart(req[r1].form.email) = LocalPart(req[r2].form.email)
        /\ ~\E u \in users : u.email = req[r2].form.email
        /\ Cardinality({u \in users : u.username = "dave"}) = 1

\* C30: login does not consult the active flag: a login with the email and
\* the correct password of a user, inactive or active, is accepted, sets
\* that user's last_login to the current time and returns a valid token
\* for the email; the inactive state is enforced only afterwards, when the
\* token is presented to a route behind get_current_active_user, which
\* answers 400.
C30_LoginIgnoresActive ==
    [][\A r \in Reqs : \A u \in users :
         /\ ( /\ Begins(r, "login")
              /\ u.email = req'[r].form.email
              /\ verify_password(req'[r].form.password, u.hashed_password) )
              => /\ req'[r].pc = "second"
                 /\ req'[r].uid = u.id
         /\ ( /\ Ends(r, "login") /\ req[r].pc = "second"
              /\ u.id = req[r].uid )
              => /\ req'[r].resp.code = 200
                 /\ LoginTokenValid(req'[r].resp.body.access_token,
                                     u.email, now)
                 /\ [u EXCEPT !.last_login = <<now>>] \in users'
         /\ ( /\ req[r].pc = "idle" /\ req'[r].router = "auth"
              /\ req'[r].tok \in IssuedTokens
              /\ TokenValid(req'[r].tok, now)
              /\ req'[r].tok.sub = u.email /\ ~u.is_active )
              => /\ req'[r].pc = "done"
                 /\ req'[r].resp.code = 400]_vars

\* carol, whose account is disabled, logged in with her password, got a
\* token that is valid, has her last_login set, and was refused with 400
\* when she presented the token to GET /auth/me
C30_Witness ==
    \E r1, r2 \in Reqs : \E u \in users :
        /\ ~u.is_active /\ u.last_login # <<>>
        /\ Finished(r1, "login") /\ req[r1].resp.code = 200
        /\ req[r1].form.email = u.email
        /\ TokenValid(req[r1].resp.body.access_token, now)
        /\ req[r2].pc = "done" /\ req[r2].router = "auth"
        /\ req[r2].tok = req[r1].resp.body.access_token
        /\ req[r2].resp.code = 400

(***************************************************************************)
(* Database sessions.  Every route takes its session from get_db, directly *)
(* and through get_current_user; the framework enters a dependency once    *)
(* per request, so a request has one session.  get_db is a generator: it   *)
(* makes a session, yields it to the request and is resumed when the       *)
(* request is over, with the exception the request raised thrown in at the *)
(* yield.  calc holds the sessions made so far and the ones that are open; *)
(* req[r] names the session of the request and the exception it raised.    *)
(***************************************************************************)
\* sessions are followed while the factory has made at most MaxSessions
MaxSessions == 3

\* no session made, none open
NoSessions == NoCalc @@ [made |-> 0, open |-> {}]

\* a slot without a request and without a session
SessionReq == IdleReq @@ [session |-> 0, raised |-> ""]

\* AsyncSessionLocal(): a new session object
AsyncSessionLocal(made) == made + 1

\* session.close(): closing a closed session does nothing
session_close(open, s) == open \ {s}

\* where a request starts once it has its session: the routes of the
\* proposals router and GET /auth/me depend on get_current_user, register
\* and login do not
FirstStages(router) ==
    IF router = "proposals" THEN {"deps"} ELSE {"deps", "route"}

\* what the request answers for the exception it raised
Answer(raised) ==
    IF raised = "" THEN Resp(200, "ok")
    ELSE IF raised = "credentials" THEN credentials_exception
    ELSE IF raised = "HTTPException" THEN Resp(404, "Proposal not found")
    ELSE InternalServerError

\* the request holds a session it has not given back
InRequest(r) == req[r].pc \in {"deps", "route", "exit"}

\* get_db up to its yield: a request arrives, the session is made and
\* entered and handed to the request
get_db_enter(r) ==
    /\ req[r].pc = "idle"
    /\ calc.made < MaxSessions
    /\ \E router \in Routers :
       \E stage \in FirstStages(router) :
         LET session == AsyncSessionLocal(calc.made)
         IN  /\ calc' = [calc EXCEPT !.made = session,
                                     !.open = @ \cup {session}]
             /\ req' = [req EXCEPT ![r] =
                          [SessionReq EXCEPT
                             !.router = router, !.session = session,
                             !.pc = stage]]
    /\ UNCHANGED <<attrs, users, proposals, next_id, now>>

\* get_current_user selects the user on the session of the request and
\* hands the user on, or raises its 401
dependency_resolves(r) ==
    /\ req[r].pc = "deps"
    /\ req[r].session \in calc.open
    /\ \E found \in BOOLEAN :
         req' = [req EXCEPT ![r] =
                   IF found THEN [@ EXCEPT !.pc = "route", !.uid = 1]
                   ELSE [@ EXCEPT !.pc = "exit", !.raised = "credentials"]]
    /\ UNCHANGED <<calc, attrs, users, proposals, next_id, now>>

\* the route awaits a statement on its session
route_executes(r) ==
    /\ req[r].pc = "route"
    /\ ~req[r].touched
    /\ req[r].session \in calc.open
    /\ req' = [req EXCEPT ![r].touched = TRUE]
    /\ UNCHANGED <<calc, attrs, users, proposals, next_id, now>>

\* the route returns its result
route_returns(r) ==
    /\ req[r].pc = "route"
    /\ req' = [req EXCEPT ![r].pc = "exit"]
    /\ UNCHANGED <<calc, attrs, users, proposals, next_id, now>>

\* the route raises: an HTTPException of its own, or an exception that no
\* handler catches
route_raises(r) ==
    /\ req[r].pc = "route"
    /\ \E e \in {"HTTPException", "Exception"} :
         req' = [req EXCEPT ![r].pc = "exit", ![r].raised = e]
    /\ UNCHANGED <<calc, attrs, users, proposals, next_id, now>>

\* get_db resumed in a variant without the finally clause and without the
\* context manager: the session is closed only when nothing was raised
get_db_exit_on_return_only(r) ==
    /\ req[r].pc = "exit"
    /\ calc' = [calc EXCEPT !.open =
                  IF req[r].raised = "" THEN session_close(@, req[r].session)
                  ELSE @]
    /\ req' = [req EXCEPT ![r] = Done(@, Answer(req[r].raised))]
    /\ UNCHANGED <<attrs, users, proposals, next_id, now>>

\* get_db resumed after its yield, normally or with the exception thrown
\* in: the finally clause closes the session, leaving the async with closes
\* it again, and the exception, if any, goes on to the framework
get_db_exit(r) ==
    /\ req[r].pc = "exit"
    /\ calc' = [calc EXCEPT !.open =
                  session_close(session_close(@, req[r].session),
                                req[r].session)]
    /\ req' = [req EXCEPT ![r] = Done(@, Answer(req[r].raised))]
    /\ UNCHANGED <<attrs, users, proposals, next_id, now>>

\* the response has been delivered; the slot takes the next request
request_ends(r) ==
    /\ req[r].pc = "done"
    /\ req' = [req EXCEPT ![r] = SessionReq]
    /\ UNCHANGED <<calc, attrs, users, proposals, next_id, now>>

InitSession ==
    /\ attrs = ProposalAttrs
    /\ users = StoredUsers
    /\ proposals = StoredProposals
    /\ next_id = Cardinality(StoredProposals) + 1
    /\ now = 0
    /\ req = [r \in Reqs |-> SessionReq]
    /\ calc = NoSessions

NextSession ==
    \E r \in Reqs :
        \/ get_db_enter(r)
        \/ dependency_resolves(r)
        \/ route_executes(r)
        \/ route_returns(r)
        \/ route_raises(r)
        \/ get_db_exit(r)
        \/ request_ends(r)

SpecSession == InitSession /\ [][NextSession]_vars

\* C27: every request gets a session of its own, made for it when it
\* arrives and open while it runs; the session is closed when the request
\* has finished, whether it returned or raised; no open session is left
\* without a running request, and no two requests hold the same session.
C27_SessionPerRequest ==
    /\ [](\A r \in Reqs :
            /\ InRequest(r) => req[r].session \in calc.open
            /\ req[r].pc = "done"
                 => req[r].session # 0 /\ req[r].session \notin calc.open)
    /\ [](\A s \in calc.open :
            \E r \in Reqs : InRequest(r) /\ req[r].session = s)
    /\ [](\A r1, r2 \in Reqs :
            (r1 # r2 /\ req[r1].session # 0)
              => req[r1].session # req[r2].session)
    /\ [][\A r \in Reqs :
           (req[r].pc = "idle" /\ req'[r].pc # "idle")
             => /\ req'[r].session \notin calc.open
                /\ req'[r].session \in calc'.open]_vars

\* two requests ran at the same time on different sessions; one returned
\* and was answered 200, the other raised and was answered 500; both have
\* finished and no session is open
C27_Witness ==
    \E r1, r2 \in Reqs :
        /\ req[r1].pc = "done" /\ req[r1].resp.code = 200
        /\ req[r1].touched
        /\ req[r2].pc = "done" /\ req[r2].resp.code = 500
        /\ req[r1].session # req[r2].session
        /\ calc.open = {}
        /\ calc.made = 2

====
